---- MODULE Spec2Model ----
(***************************************************************************)
(* Supervisor orchestration of SupervisorMultiAgentCrew.process_query      *)
(* (src/crew_supervisor.py): routing, worker execution, synthesis,         *)
(* validation and the bounded retry loop.                                  *)
(*                                                                         *)
(* Texts (model replies, worker answers) are sequences of one-character    *)
(* strings, so that str.lower(), the `in` substring test and the regular   *)
(* expression of config.SENSITIVE_PATTERNS are computed, not assumed.      *)
(***************************************************************************)
EXTENDS Integers, Sequences, FiniteSets, TLC

\* ------------------------------------------------------------------ bounds
\* Number of distinct caller queries the run may be started with.
NumQueries == 2

Queries == 1..NumQueries

\* Longest text, in words, handed to a reply normaliser on its own.
MaxWords == 2

\* Rows ever inserted into persons, and into bank_accounts.
MaxPersons == 2

MaxAccounts == 2

\* PDF files in the resources directory, and chunks one file splits into.
MaxFiles == 2

MaxChunks == 2

\* ------------------------------------------------------- program constants
\* max_attempts = 3 (crew_supervisor.py:258)
max_attempts == 3

\* "pattern" tag of the results built after the loop (lines 426, 434)
PatternTag == "supervisor_multi_agent"

\* error text of the exhausted result (line 432)
ExhaustedError == "Could not generate satisfactory answer after maximum attempts"

\* ------------------------------------------------------------------ texts
\* Python None / a bound value
None == <<>>

Some(v) == <<v>>

\* keywords tested by _parse_routing_decision and _parse_validation_result
\* 'both'
KwBoth == <<"b", "o", "t", "h">>

\* 'mcp_and_rag'
KwMcpAndRag == <<"m", "c", "p", "_", "a", "n", "d", "_", "r", "a", "g">>

\* 'mcp'
KwMcp == <<"m", "c", "p">>

\* 'database'
KwDatabase == <<"d", "a", "t", "a", "b", "a", "s", "e">>

\* 'rag'
KwRag == <<"r", "a", "g">>

\* 'document'
KwDocument == <<"d", "o", "c", "u", "m", "e", "n", "t">>

\* 'engine number'
KwEngineNumber == <<"e", "n", "g", "i", "n", "e", " ", "n", "u", "m", "b", "e", "r">>

\* 'en12345xyz'
KwEngineValue == <<"e", "n", "1", "2", "3", "4", "5", "x", "y", "z">>

\* variant: without the accept keywords that end a retry keyword
accept_keywords_short ==
    { <<"a", "c", "c", "e", "p", "t">>,
      <<"c", "o", "r", "r", "e", "c", "t">>,
      <<"a", "c", "c", "u", "r", "a", "t", "e">>,
      <<"y", "e", "s">>,
      <<"g", "o", "o", "d">>,
      <<"a", "d", "e", "q", "u", "a", "t", "e">>,
      <<"s", "a", "t", "i", "s", "f", "a", "c", "t", "o", "r", "y">> }

\* accept_keywords (lines 57-58)
accept_keywords ==
    { <<"a", "c", "c", "e", "p", "t">>,
      <<"s", "u", "f", "f", "i", "c", "i", "e", "n", "t">>,
      <<"c", "o", "m", "p", "l", "e", "t", "e">>,
      <<"c", "o", "r", "r", "e", "c", "t">>,
      <<"a", "c", "c", "u", "r", "a", "t", "e">>,
      <<"f", "o", "u", "n", "d">>,
      <<"y", "e", "s">>,
      <<"g", "o", "o", "d">>,
      <<"a", "d", "e", "q", "u", "a", "t", "e">>,
      <<"s", "a", "t", "i", "s", "f", "a", "c", "t", "o", "r", "y">> }

\* retry_keywords (lines 59-60)
retry_keywords ==
    { <<"r", "e", "t", "r", "y">>,
      <<"i", "n", "s", "u", "f", "f", "i", "c", "i", "e", "n", "t">>,
      <<"i", "n", "c", "o", "m", "p", "l", "e", "t", "e">>,
      <<"m", "i", "s", "s", "i", "n", "g">>,
      <<"t", "r", "y", " ", "a", "g", "a", "i", "n">>,
      <<"n", "o", "t", " ", "f", "o", "u", "n", "d">>,
      <<"n", "o">>,
      <<"f", "a", "i", "l", "e", "d">> }

\* raw replies the supervisor model may give to the routing task
\* 'MCP'
ReplyMCP == <<"M", "C", "P">>

\* 'RAG'
ReplyRAG == <<"R", "A", "G">>

\* 'BOTH'
ReplyBOTH == <<"B", "O", "T", "H">>

\* 'unsure'
ReplyUnsure == <<"u", "n", "s", "u", "r", "e">>

ClassifierReplies == {ReplyMCP, ReplyRAG, ReplyBOTH, ReplyUnsure}

\* raw replies the supervisor model may give to the validation task
\* 'ACCEPT'
ReplyAccept == <<"A", "C", "C", "E", "P", "T">>

\* 'RETRY_WITH_MCP'
ReplyRetryMcp == <<"R", "E", "T", "R", "Y", "_", "W", "I", "T", "H", "_", "M", "C", "P">>

\* 'RETRY_WITH_RAG'
ReplyRetryRag == <<"R", "E", "T", "R", "Y", "_", "W", "I", "T", "H", "_", "R", "A", "G">>

\* 'RETRY_WITH_BOTH'
ReplyRetryBoth == <<"R", "E", "T", "R", "Y", "_", "W", "I", "T", "H", "_", "B", "O", "T", "H">>

\* 'retry'
ReplyRetry == <<"r", "e", "t", "r", "y">>

\* 'hmm'
ReplyUnclear == <<"h", "m", "m">>

ValidatorReplies ==
    {ReplyAccept, ReplyRetryMcp, ReplyRetryRag, ReplyRetryBoth, ReplyRetry, ReplyUnclear}

\* words a model reply handed to a normaliser is made of
Words ==
    { <<"b", "o", "t", "h">>,
      <<"B", "O", "T", "H">>,
      <<"m", "c", "p">>,
      <<"M", "C", "P">>,
      <<"r", "a", "g">>,
      <<"d", "a", "t", "a", "b", "a", "s", "e">>,
      <<"d", "o", "c", "u", "m", "e", "n", "t">>,
      <<"m", "c", "p", "_", "a", "n", "d", "_", "r", "a", "g">>,
      <<"a", "c", "c", "e", "p", "t">>,
      <<"r", "e", "t", "r", "y">>,
      <<"i", "n", "s", "u", "f", "f", "i", "c", "i", "e", "n", "t">>,
      <<"i", "n", "c", "o", "m", "p", "l", "e", "t", "e">>,
      <<"n", "o", "t", " ", "f", "o", "u", "n", "d">>,
      <<"m", "i", "s", "s", "i", "n", "g">>,
      <<"h", "m", "m">> }

\* answer texts the worker and synthesis crews may return
\* ''
TxtEmpty == <<>>

\* 'John is 30'
TxtJohn == <<"J", "o", "h", "n", " ", "i", "s", " ", "3", "0">>

\* 'not found'
TxtNotFound == <<"n", "o", "t", " ", "f", "o", "u", "n", "d">>

\* '3345 5678 9012'
TxtGrouped == <<"3", "3", "4", "5", " ", "5", "6", "7", "8", " ", "9", "0", "1", "2">>

\* 'id 334556789012'
TxtUngrouped == <<"i", "d", " ", "3", "3", "4", "5", "5", "6", "7", "8", "9", "0", "1", "2">>

\* 'XXXX-XXXX-9012'
TxtMasked == <<"X", "X", "X", "X", "-", "X", "X", "X", "X", "-", "9", "0", "1", "2">>

\* 'No agents were executed'
TxtNoAgents == <<"N", "o", " ", "a", "g", "e", "n", "t", "s", " ", "w", "e", "r", "e", " ", "e", "x", "e", "c", "u", "t", "e", "d">>

\* 'The engine number is EN12345XYZ'
TxtEngine ==
    <<"T", "h", "e", " ", "e", "n", "g", "i", "n", "e", " ", "n", "u", "m", "b", "e", "r", " ",
      "i", "s", " ", "E", "N", "1", "2", "3", "4", "5", "X", "Y", "Z">>

\* str(mcp_crew.kickoff(...)): any text of the Database worker's model
McpTexts == {TxtEmpty, TxtJohn}

\* str(rag_crew.kickoff(...)): any text of the Document worker's model
RagTexts == {TxtEmpty, TxtNotFound, TxtGrouped, TxtUngrouped, TxtMasked, TxtEngine}

\* str(synthesis_crew.kickoff(...)): any text of the supervisor's model
SynthTexts == {TxtEmpty, TxtJohn, TxtMasked}

\* ------------------------------------------------------- string functions

UpperToLower ==
    ("A" :> "a") @@ ("B" :> "b") @@ ("C" :> "c") @@ ("D" :> "d") @@ ("E" :> "e") @@ ("F" :> "f") @@
    ("G" :> "g") @@ ("H" :> "h") @@ ("I" :> "i") @@ ("J" :> "j") @@ ("K" :> "k") @@ ("L" :> "l") @@
    ("M" :> "m") @@ ("N" :> "n") @@ ("O" :> "o") @@ ("P" :> "p") @@ ("Q" :> "q") @@ ("R" :> "r") @@
    ("S" :> "s") @@ ("T" :> "t") @@ ("U" :> "u") @@ ("V" :> "v") @@ ("W" :> "w") @@ ("X" :> "x") @@
    ("Y" :> "y") @@ ("Z" :> "z")

\* variant: the text compared as it is
LowerAsIs(s) == s

\* str.lower()
Lower(s) ==
    [i \in 1..Len(s) |-> IF s[i] \in DOMAIN UpperToLower THEN UpperToLower[s[i]] ELSE s[i]]

\* Python `sub in s` on strings
Contains(s, sub) ==
    \E i \in 0..(Len(s) - Len(sub)) : \A j \in 1..Len(sub) : s[i + j] = sub[j]

Digits == {"0", "1", "2", "3", "4", "5", "6", "7", "8", "9"}

Letters == DOMAIN UpperToLower \cup {UpperToLower[c] : c \in DOMAIN UpperToLower}

\* \w of the re module, and \s (the texts hold no other whitespace)
WordChars == Digits \cup Letters \cup {"_"}

Whitespace == {" "}

\* \b at the gap before position i (1..Len(s)+1)
WordBoundary(s, i) ==
    LET before == i > 1 /\ s[i - 1] \in WordChars
        after  == i <= Len(s) /\ s[i] \in WordChars
    IN  before # after

\* \d{4} at positions i..i+3
FourDigits(s, i) ==
    /\ i + 3 <= Len(s)
    /\ \A k \in 0..3 : s[i + k] \in Digits

\* SENSITIVE_PATTERNS["aadhar"] = \b\d{4}\s?\d{4}\s?\d{4}\b matches at i;
\* g1, g2 are the widths taken by the two optional \s
AadharMatchAt(s, i, g1, g2) ==
    /\ WordBoundary(s, i)
    /\ FourDigits(s, i)
    /\ g1 = 1 => (i + 4 <= Len(s) /\ s[i + 4] \in Whitespace)
    /\ FourDigits(s, i + 4 + g1)
    /\ g2 = 1 => (i + 8 + g1 <= Len(s) /\ s[i + 8 + g1] \in Whitespace)
    /\ FourDigits(s, i + 8 + g1 + g2)
    /\ WordBoundary(s, i + 12 + g1 + g2)

\* re.search(SENSITIVE_PATTERNS["aadhar"], s) is not None
HasAadhar(s) ==
    \E i \in 1..Len(s) : \E g1 \in {0, 1} : \E g2 \in {0, 1} : AadharMatchAt(s, i, g1, g2)

\* ------------------------------------------------ reply normalisers
\* variant: the document terms tested before the database terms
_parse_routing_decision_rag_first(output) ==
    LET output_lower == Lower(output)
    IN  IF Contains(output_lower, KwBoth) \/ Contains(output_lower, KwMcpAndRag) THEN "BOTH"
        ELSE IF Contains(output_lower, KwRag) \/ Contains(output_lower, KwDocument) THEN "RAG"
        ELSE IF Contains(output_lower, KwMcp) \/ Contains(output_lower, KwDatabase) THEN "MCP"
        ELSE "BOTH"

\* variant: a reply naming no source gives no route
_parse_routing_decision_no_default(output) ==
    LET output_lower == Lower(output)
    IN  IF Contains(output_lower, KwBoth) \/ Contains(output_lower, KwMcpAndRag) THEN "BOTH"
        ELSE IF Contains(output_lower, KwMcp) \/ Contains(output_lower, KwDatabase) THEN "MCP"
        ELSE IF Contains(output_lower, KwRag) \/ Contains(output_lower, KwDocument) THEN "RAG"
        ELSE "UNKNOWN"

\* _parse_routing_decision (lines 38-50)
_parse_routing_decision(output) ==
    LET output_lower == Lower(output)
    IN  IF Contains(output_lower, KwBoth) \/ Contains(output_lower, KwMcpAndRag) THEN "BOTH"
        ELSE IF Contains(output_lower, KwMcp) \/ Contains(output_lower, KwDatabase) THEN "MCP"
        ELSE IF Contains(output_lower, KwRag) \/ Contains(output_lower, KwDocument) THEN "RAG"
        ELSE "BOTH"

\* variant: the retry keywords tested before the accept keywords
_parse_validation_result_retry_first(output) ==
    LET output_lower == Lower(output)
    IN  IF \E keyword \in retry_keywords : Contains(output_lower, keyword)
            THEN IF Contains(output_lower, KwBoth) THEN [status |-> "RETRY", next_agent |-> "BOTH"]
                 ELSE IF Contains(output_lower, KwMcp) THEN [status |-> "RETRY", next_agent |-> "MCP"]
                 ELSE IF Contains(output_lower, KwRag) THEN [status |-> "RETRY", next_agent |-> "RAG"]
                 ELSE [status |-> "RETRY", next_agent |-> "BOTH"]
        ELSE [status |-> "ACCEPT"]

\* _parse_validation_result (lines 52-83); the "reason" entry of an ACCEPT
\* dict is never read by process_query and is left out
_parse_validation_result(output) ==
    LET output_lower == Lower(output)
    IN  IF \E keyword \in accept_keywords : Contains(output_lower, keyword)
            THEN [status |-> "ACCEPT"]
        ELSE IF \E keyword \in retry_keywords : Contains(output_lower, keyword)
            THEN IF Contains(output_lower, KwBoth) THEN [status |-> "RETRY", next_agent |-> "BOTH"]
                 ELSE IF Contains(output_lower, KwMcp) THEN [status |-> "RETRY", next_agent |-> "MCP"]
                 ELSE IF Contains(output_lower, KwRag) THEN [status |-> "RETRY", next_agent |-> "RAG"]
                 ELSE [status |-> "RETRY", next_agent |-> "BOTH"]
        ELSE IF Contains(output_lower, KwEngineNumber) /\ Contains(output_lower, KwEngineValue)
            THEN [status |-> "ACCEPT"]
        ELSE [status |-> "ACCEPT"]

\* variant: every retry falls back to both workers
GetNextAgentBoth(v) == "BOTH"

\* validation.get('next_agent', 'BOTH') (lines 415-416)
GetNextAgent(v) == IF "next_agent" \in DOMAIN v THEN v.next_agent ELSE "BOTH"

\* `if final_answer:` (line 420): None and the empty string are falsy
Truthy(opt) == opt # None /\ opt[1] # <<>>


\* ------------------------------------------------------------------ state
VARIABLES
    pc,              \* position of the process_query call in its body
    query,           \* the query argument
    route,           \* local `route`; "unbound" before line 254
    attempt,         \* local `attempt`; 0 while unbound (before line 259)
    worker_results,  \* local `worker_results`: sequence of <<name, text>>
    current_answer,  \* local `current_answer`: None while unbound, else Some(text)
    final_answer,    \* local `final_answer`: None or Some(text)
    validation,      \* local `validation`: None while unbound, else Some(dict)
    result,          \* the returned dict: None until the call returns
    calls,           \* history: kickoff() calls made, per crew
    handed,          \* history: <<crew, query>> of every kickoff(inputs={'query': ...})
    verdicts,        \* history: status of each validation of the run, in order
    raised,          \* history: the call that raised, "none" if none did
    escaped,         \* history: TRUE iff an exception left process_query
    \* -- the reply normalisers applied to a text on their own
    nz_text,         \* the `output` argument
    nz_route,        \* value returned by _parse_routing_decision, "unbound" before
    nz_validation,   \* value returned by _parse_validation_result, None before
    \* -- the record store (tools/database.py, mcp_servers/*.py)
    persons,         \* table persons: set of rows [id, name, age, email]
    accounts,        \* table bank_accounts: set of rows [accountId, personId, bankName, balance]
    next_person_id,  \* AUTOINCREMENT sequence of persons: next id to hand out
    next_account_id, \* AUTOINCREMENT sequence of bank_accounts
    foreign_keys,    \* PRAGMA foreign_keys of the connections (never set by the code)
    pending,         \* per caller: None, or Some(update_bank_account call between its
                     \* SELECT and its UPDATE)
    db_call,         \* history: the tool call that returned last, None before
    db_result,       \* history: the dict that call returned, None before
    last_commit,     \* history: per accountId, the `account` dict returned by the
                     \* update_bank_account call that committed last
    \* -- the document index (rag/rag_pipeline.py)
    rag_pc,          \* position of the index_all_pdfs call in its body
    pdf_files,       \* local `pdf_files`: sequence of [name, chunks], chunks = None
                     \* for a file PyPDFLoader cannot load
    points,          \* the Qdrant collection: function point id -> payload
    rag_results      \* local `results`: the per-file outcome list

sup_vars == <<pc, query, route, attempt, worker_results, current_answer, final_answer,
              validation, result, calls, handed, verdicts, raised, escaped>>

nz_vars == <<nz_text, nz_route, nz_validation>>

db_vars == <<persons, accounts, next_person_id, next_account_id, foreign_keys, pending,
             db_call, db_result, last_commit>>

rag_vars == <<rag_pc, pdf_files, points, rag_results>>

vars == <<sup_vars, nz_vars, db_vars, rag_vars>>

\* number of concurrent callers of the record-store tools
NumCallers == 2

Callers == 1..NumCallers

\* no process_query call in progress
SupIdle ==
    /\ pc = "idle"
    /\ query = 1
    /\ route = "unbound"
    /\ attempt = 0
    /\ worker_results = <<>>
    /\ current_answer = None
    /\ final_answer = None
    /\ validation = None
    /\ result = None
    /\ calls = [c \in {"classifier", "mcp", "rag", "synthesis", "validator"} |-> 0]
    /\ handed = {}
    /\ verdicts = <<>>
    /\ raised = "none"
    /\ escaped = FALSE

\* no normaliser applied
NzIdle ==
    /\ nz_text = <<>>
    /\ nz_route = "unbound"
    /\ nz_validation = None

\* no index_all_pdfs call in progress, the collection as
\* _initialize_collection creates it
RagIdle ==
    /\ rag_pc = "idle"
    /\ pdf_files = <<>>
    /\ points = <<>>
    /\ rag_results = <<>>

\* the database as _initialize_db leaves a new file: both tables empty
DbEmpty ==
    /\ persons = {}
    /\ accounts = {}
    /\ next_person_id = 1
    /\ next_account_id = 1
    /\ pending = [c \in Callers |-> None]
    /\ db_call = None
    /\ db_result = None
    /\ last_commit = [a \in 1..MaxAccounts |-> None]

\* the collaborator calls of process_query that can raise
Sites == {"person_tools", "bank_tools", "classifier", "mcp", "rag", "synthesis", "validator"}

Crews == {"classifier", "mcp", "rag", "synthesis", "validator"}

\* one more kickoff() of crew c
Called(c) == [calls EXCEPT ![c] = @ + 1]

\* variant: the crews are handed another query than the caller's
QueryInputOther(q) == IF q = 1 THEN 2 ELSE 1

\* `inputs={'query': query}` (lines 253, 289, 312, 357, 407) and the {query}
\* of the task descriptions: the parameter, as it is
QueryInput(q) == q

\* one more kickoff() of crew c, with the query it is handed
Handed(c) == handed \cup {<<c, QueryInput(query)>>}

Init ==
    /\ pc = "person_tools"
    /\ query \in Queries
    /\ route = "unbound"
    /\ attempt = 0
    /\ worker_results = <<>>
    /\ current_answer = None
    /\ final_answer = None
    /\ validation = None
    /\ result = None
    /\ calls = [c \in Crews |-> 0]
    /\ handed = {}
    /\ verdicts = <<>>
    /\ raised = "none"
    /\ escaped = FALSE
    /\ NzIdle
    /\ DbEmpty
    /\ RagIdle
    /\ foreign_keys = FALSE

\* ------------------------------------------------------- exception handling
\* variant: the try opened only after the two connections were made
CatchesAfterConnect(site) == site \notin {"person_tools", "bank_tools"}

\* The try of line 93 encloses the whole body, the connections included, and
\* `except Exception` (line 437) takes every exception raised at any site.
Catches(site) == TRUE

\* str(e) of the exception raised at a site
ErrorText(site) == site

\* the dict built by the except block (lines 439-443)
ExceptionResult(site) ==
    [success |-> FALSE, query |-> query, error |-> ErrorText(site)]

\* variant: a failed classification falls back to the most inclusive route
\* and the run goes on
RaiseFailOpen(site) ==
    /\ raised' = site
    /\ escaped' = FALSE
    /\ IF site = "classifier"
          THEN /\ route' = "BOTH"
               /\ attempt' = 1
               /\ pc' = "loop"
               /\ result' = result
          ELSE /\ pc' = "done"
               /\ result' = Some(ExceptionResult(site))
               /\ UNCHANGED <<route, attempt>>
    /\ UNCHANGED <<query, worker_results, current_answer, final_answer, validation, verdicts>>

\* A call at `site` raises: control leaves the body for the except block
\* (lines 437-443), which returns the error dict.
Raise(site) ==
    /\ raised' = site
    /\ pc' = "done"
    /\ IF Catches(site)
          THEN result' = Some(ExceptionResult(site)) /\ escaped' = FALSE
          ELSE result' = None /\ escaped' = TRUE
    /\ UNCHANGED <<query, route, attempt, worker_results, current_answer,
                   final_answer, validation, verdicts>>

\* ---------------------------------------------------------------- actions
\* with MCPServerAdapter(person_params, connect_timeout=10) (line 110)
OpenPersonTools ==
    /\ pc = "person_tools"
    /\ \E ok \in BOOLEAN :
          IF ok
             THEN /\ pc' = "bank_tools"
                  /\ UNCHANGED <<query, route, attempt, worker_results, current_answer,
                                 final_answer, validation, result, verdicts, raised, escaped>>
             ELSE Raise("person_tools")
    /\ UNCHANGED <<calls, handed>>
    /\ UNCHANGED <<nz_vars, db_vars, rag_vars>>

\* with MCPServerAdapter(bank_params, connect_timeout=10) (line 111)
OpenBankTools ==
    /\ pc = "bank_tools"
    /\ \E ok \in BOOLEAN :
          IF ok
             THEN /\ pc' = "routing"
                  /\ UNCHANGED <<query, route, attempt, worker_results, current_answer,
                                 final_answer, validation, result, verdicts, raised, escaped>>
             ELSE Raise("bank_tools")
    /\ UNCHANGED <<calls, handed>>
    /\ UNCHANGED <<nz_vars, db_vars, rag_vars>>

\* Step 1, routing (lines 246-260): one kickoff of the routing crew, the
\* reply normalised into `route`, then the loop variables are bound.
Routing ==
    /\ pc = "routing"
    /\ calls' = Called("classifier")
    /\ handed' = Handed("classifier")
    /\ \/ Raise("classifier")
       \/ \E reply \in ClassifierReplies :
             /\ route' = _parse_routing_decision(reply)
             /\ attempt' = 1
             /\ final_answer' = None
             /\ pc' = "loop"
             /\ UNCHANGED <<query, worker_results, current_answer, validation,
                            result, verdicts, raised, escaped>>
    /\ UNCHANGED <<nz_vars, db_vars, rag_vars>>

\* variant: loop test off by one
LoopContinuesOffByOne(a) == a <= max_attempts + 1

\* `while attempt <= max_attempts` (line 262)
LoopContinues(a) == a <= max_attempts

\* variant: the list of the earlier attempt is kept
LoopHeadKeeps ==
    /\ pc = "loop"
    /\ pc' = IF LoopContinues(attempt) THEN "exec_mcp" ELSE "return"
    /\ UNCHANGED <<query, route, attempt, worker_results, current_answer, final_answer,
                   validation, result, calls, handed, verdicts, raised, escaped>>
    /\ UNCHANGED <<nz_vars, db_vars, rag_vars>>

\* loop head (lines 262-265): test, then worker_results = []
LoopHead ==
    /\ pc = "loop"
    /\ IF LoopContinues(attempt)
          THEN worker_results' = <<>> /\ pc' = "exec_mcp"
          ELSE worker_results' = worker_results /\ pc' = "return"
    /\ UNCHANGED <<query, route, attempt, current_answer, final_answer, validation,
                   result, calls, handed, verdicts, raised, escaped>>
    /\ UNCHANGED <<nz_vars, db_vars, rag_vars>>

\* `if route == "MCP" or route == "BOTH"` (line 268)
RunsMcp(r) == r = "MCP" \/ r = "BOTH"

\* variant: the Document worker run for RAG only
RunsRagOnly(r) == r = "RAG"

\* `if route == "RAG" or route == "BOTH"` (line 292)
RunsRag(r) == r = "RAG" \/ r = "BOTH"

\* Database worker (lines 268-290)
ExecMcp ==
    /\ pc = "exec_mcp"
    /\ IF RunsMcp(route)
          THEN /\ calls' = Called("mcp")
               /\ handed' = Handed("mcp")
               /\ \/ Raise("mcp")
                  \/ \E mcp_result \in McpTexts :
                        /\ worker_results' = Append(worker_results, <<"MCP", mcp_result>>)
                        /\ pc' = "exec_rag"
                        /\ UNCHANGED <<query, route, attempt, current_answer, final_answer,
                                       validation, result, verdicts, raised, escaped>>
          ELSE /\ pc' = "exec_rag"
               /\ UNCHANGED <<query, route, attempt, worker_results, current_answer,
                              final_answer, validation, result, calls, handed, verdicts,
                              raised, escaped>>
    /\ UNCHANGED <<nz_vars, db_vars, rag_vars>>

\* Document worker (lines 292-313): the crew's text is appended as returned
ExecRag ==
    /\ pc = "exec_rag"
    /\ IF RunsRag(route)
          THEN /\ calls' = Called("rag")
               /\ handed' = Handed("rag")
               /\ \/ Raise("rag")
                  \/ \E rag_result \in RagTexts :
                        /\ worker_results' = Append(worker_results, <<"RAG", rag_result>>)
                        /\ pc' = "synthesize"
                        /\ UNCHANGED <<query, route, attempt, current_answer, final_answer,
                                       validation, result, verdicts, raised, escaped>>
          ELSE /\ pc' = "synthesize"
               /\ UNCHANGED <<query, route, attempt, worker_results, current_answer,
                              final_answer, validation, result, calls, handed, verdicts,
                              raised, escaped>>
    /\ UNCHANGED <<nz_vars, db_vars, rag_vars>>

\* variant: the synthesis crew run whenever any worker result exists
SynthesizeAlways ==
    /\ pc = "synthesize"
    /\ IF Len(worker_results) > 0
          THEN /\ calls' = Called("synthesis")
               /\ handed' = Handed("synthesis")
               /\ \/ Raise("synthesis")
                  \/ \E synthesis_result \in SynthTexts :
                        /\ current_answer' = Some(synthesis_result)
                        /\ pc' = "validate"
                        /\ UNCHANGED <<query, route, attempt, worker_results, final_answer,
                                       validation, result, verdicts, raised, escaped>>
          ELSE /\ current_answer' = Some(TxtNoAgents)
               /\ pc' = "validate"
               /\ UNCHANGED <<query, route, attempt, worker_results, final_answer,
                              validation, result, calls, handed, verdicts, raised, escaped>>
    /\ UNCHANGED <<nz_vars, db_vars, rag_vars>>

\* Synthesis (lines 315-363)
Synthesize ==
    /\ pc = "synthesize"
    /\ IF Len(worker_results) > 1
          THEN /\ calls' = Called("synthesis")
               /\ handed' = Handed("synthesis")
               /\ \/ Raise("synthesis")
                  \/ \E synthesis_result \in SynthTexts :
                        /\ current_answer' = Some(synthesis_result)
                        /\ pc' = "validate"
                        /\ UNCHANGED <<query, route, attempt, worker_results, final_answer,
                                       validation, result, verdicts, raised, escaped>>
          ELSE /\ current_answer' = IF worker_results # <<>>
                                       THEN Some(worker_results[1][2])
                                       ELSE Some(TxtNoAgents)
               /\ pc' = "validate"
               /\ UNCHANGED <<query, route, attempt, worker_results, final_answer,
                              validation, result, calls, handed, verdicts, raised, escaped>>
    /\ UNCHANGED <<nz_vars, db_vars, rag_vars>>

\* variant: the counter advanced twice per retry
NextAttemptTwice(a) == a + 2

\* `attempt += 1` (line 417)
NextAttempt(a) == a + 1

\* variant: a retry asks the classifier again for the route
ValidateReclassifies ==
    /\ pc = "validate"
    /\ handed' = Handed("validator")
    /\ \/ calls' = Called("validator") /\ Raise("validator")
       \/ \E reply \in ValidatorReplies :
             LET v == _parse_validation_result(reply)
             IN  /\ validation' = Some(v)
                 /\ verdicts' = Append(verdicts, v.status)
                 /\ IF v.status = "ACCEPT"
                       THEN /\ final_answer' = current_answer
                            /\ pc' = "return"
                            /\ calls' = Called("validator")
                            /\ UNCHANGED <<route, attempt>>
                       ELSE /\ \E again \in ClassifierReplies :
                                  route' = _parse_routing_decision(again)
                            /\ calls' = [calls EXCEPT !["validator"] = @ + 1,
                                                      !["classifier"] = @ + 1]
                            /\ attempt' = NextAttempt(attempt)
                            /\ pc' = "loop"
                            /\ UNCHANGED final_answer
                 /\ UNCHANGED <<query, worker_results, current_answer, result,
                                raised, escaped>>
    /\ UNCHANGED <<nz_vars, db_vars, rag_vars>>

\* Step 3, validation (lines 365-417): one kickoff of the validation crew,
\* the reply normalised, then accept-and-break or retry.
Validate ==
    /\ pc = "validate"
    /\ calls' = Called("validator")
    /\ handed' = Handed("validator")
    /\ \/ Raise("validator")
       \/ \E reply \in ValidatorReplies :
             LET v == _parse_validation_result(reply)
             IN  /\ validation' = Some(v)
                 /\ verdicts' = Append(verdicts, v.status)
                 /\ IF v.status = "ACCEPT"
                       THEN /\ final_answer' = current_answer
                            /\ pc' = "return"
                            /\ UNCHANGED <<route, attempt>>
                       ELSE /\ route' = GetNextAgent(v)
                            /\ attempt' = NextAttempt(attempt)
                            /\ pc' = "loop"
                            /\ UNCHANGED final_answer
                 /\ UNCHANGED <<query, worker_results, current_answer, result,
                                raised, escaped>>
    /\ UNCHANGED <<nz_vars, db_vars, rag_vars>>

\* the dict returned after the loop (lines 420-435)
FinalResult ==
    IF Truthy(final_answer)
       THEN [success |-> TRUE, query |-> query, result |-> final_answer[1],
             attempts |-> attempt, pattern |-> PatternTag]
       ELSE [success |-> FALSE, query |-> query, error |-> ExhaustedError,
             attempts |-> max_attempts, pattern |-> PatternTag]

\* Return final result (lines 419-435)
Return ==
    /\ pc = "return"
    /\ result' = Some(FinalResult)
    /\ pc' = "done"
    /\ UNCHANGED <<query, route, attempt, worker_results, current_answer, final_answer,
                   validation, calls, handed, verdicts, raised, escaped>>
    /\ UNCHANGED <<nz_vars, db_vars, rag_vars>>

Next ==
    \/ OpenPersonTools
    \/ OpenBankTools
    \/ Routing
    \/ LoopHead
    \/ ExecMcp
    \/ ExecRag
    \/ Synthesize
    \/ Validate
    \/ Return

Spec == Init /\ [][Next]_vars

\* process_query is one sequential call: whenever a step is possible the
\* interpreter takes it, every collaborator call returning or raising
LiveSpec == Spec /\ WF_vars(Next)

\* ------------------------------------------------------ the record store
\* argument values of the tool calls
PersonIds == 1..MaxPersons

AccountIds == 1..MaxAccounts

Names == {"ann"}

Ages == {30}

Emails == {"a@x.com", "b@x.com"}

BankNames == {"hdfc", "sbi"}

Balances == {10, 20}

\* the values of an Optional[...] argument: None, or Some(v)
Opt(S) == {None} \cup {Some(v) : v \in S}

\* cursor.fetchone() of `SELECT ... FROM persons WHERE id = ?`: None or Some(row)
SelectPerson(person_id) ==
    LET rows == {p \in persons : p.id = person_id}
    IN  IF rows = {} THEN None ELSE Some(CHOOSE p \in rows : TRUE)

\* cursor.fetchone() of `SELECT * FROM bank_accounts WHERE accountId = ?`
SelectAccount(account_id) ==
    LET rows == {a \in accounts : a.accountId = account_id}
    IN  IF rows = {} THEN None ELSE Some(CHOOSE a \in rows : TRUE)

\* `x or current`: None (and the empty string) give the current value
OrCurrent(x, current) == IF x = None THEN current ELSE IF x[1] = "" THEN current ELSE x[1]

\* `x if x is not None else current`
IfNotNone(x, current) == IF x = None THEN current ELSE x[1]

\* variant: the failure is reported as a success
FailureAsSuccess(msg) == [success |-> TRUE, error |-> msg]

\* a failure result of a handler
Failure(msg) == [success |-> FALSE, error |-> msg]

\* the handler returns: its call and its dict are recorded
Respond(call, res) ==
    /\ db_call' = Some(call)
    /\ db_result' = Some(res)

\* what no record-store step touches
DbFrame == UNCHANGED <<sup_vars, nz_vars, foreign_keys, rag_vars>>

ReadOnly == UNCHANGED <<persons, accounts, next_person_id, next_account_id>>

\* variant: persons.email declared without UNIQUE
EmailTakenNever(email, person_id) == FALSE

\* email TEXT UNIQUE (database.py:40): a row other than person_id holds it
EmailTaken(email, person_id) ==
    \E p \in persons : p.email = email /\ p.id # person_id

\* create_person (person_server.py:17-43); the "message" entries of the
\* results are left out throughout
create_person(name, age, email) ==
    /\ IF EmailTaken(email, 0)
          THEN /\ Respond([op |-> "create_person", email |-> email],
                          Failure("Email already exists"))
               /\ ReadOnly
          ELSE /\ next_person_id <= MaxPersons
               /\ LET row == [id |-> next_person_id, name |-> name, age |-> age, email |-> email]
                  IN  /\ persons' = persons \cup {row}
                      /\ Respond([op |-> "create_person", email |-> email],
                                 [success |-> TRUE, person |-> row])
               /\ next_person_id' = next_person_id + 1
               /\ UNCHANGED <<accounts, next_account_id>>
    /\ UNCHANGED <<pending, last_commit>>
    /\ DbFrame

\* get_person (person_server.py:45-66)
get_person(person_id) ==
    /\ LET row == SelectPerson(person_id)
       IN  Respond([op |-> "get_person", id |-> person_id],
                   IF row # None THEN [success |-> TRUE, person |-> row[1]]
                   ELSE Failure("Person not found"))
    /\ ReadOnly
    /\ UNCHANGED <<pending, last_commit>>
    /\ DbFrame

\* list_persons (person_server.py:68-92)
list_persons ==
    /\ Respond([op |-> "list_persons"],
               [success |-> TRUE, persons |-> persons, count |-> Cardinality(persons)])
    /\ ReadOnly
    /\ UNCHANGED <<pending, last_commit>>
    /\ DbFrame

\* search_person_by_name (person_server.py:94-118); the names tried are
\* lower-case already
search_person_by_name(name) ==
    /\ LET rows == {q \in persons : q.name = name}
       IN  Respond([op |-> "search_person_by_name", name |-> name],
                   IF rows # {}
                      THEN [success |-> TRUE,
                            person |-> CHOOSE q \in rows : \A o \in rows : q.id <= o.id]
                      ELSE Failure("No person named " \o name \o " found"))
    /\ ReadOnly
    /\ UNCHANGED <<pending, last_commit>>
    /\ DbFrame

\* update_person (person_server.py:120-162)
update_person(person_id, name, age, email) ==
    /\ LET current == SelectPerson(person_id)
           call == [op |-> "update_person", id |-> person_id, email |-> email]
       IN  IF current = None
              THEN Respond(call, Failure("Person not found")) /\ ReadOnly
              ELSE LET row == [id |-> person_id,
                               name |-> OrCurrent(name, current[1].name),
                               age |-> IfNotNone(age, current[1].age),
                               email |-> OrCurrent(email, current[1].email)]
                   IN  IF EmailTaken(row.email, person_id)
                          THEN /\ Respond(call, Failure("UNIQUE constraint failed: persons.email"))
                               /\ ReadOnly
                          ELSE /\ persons' = (persons \ {current[1]}) \cup {row}
                               /\ Respond(call, [success |-> TRUE, person |-> row])
                               /\ UNCHANGED <<accounts, next_person_id, next_account_id>>
    /\ UNCHANGED <<pending, last_commit>>
    /\ DbFrame

\* variant: the accounts of the person always deleted with it
CascadesAlways(fk) == TRUE

\* ON DELETE CASCADE (database.py:51) acts only on a connection whose
\* foreign_keys pragma is on
Cascades(fk) == fk

\* delete_person (person_server.py:164-187)
delete_person(person_id) ==
    /\ LET person == SelectPerson(person_id)
           call == [op |-> "delete_person", id |-> person_id]
       IN  IF person = None
              THEN Respond(call, Failure("Person not found")) /\ ReadOnly
              ELSE /\ persons' = persons \ {person[1]}
                   /\ accounts' = IF Cascades(foreign_keys)
                                     THEN {a \in accounts : a.personId # person_id}
                                     ELSE accounts
                   /\ Respond(call, [success |-> TRUE])
                   /\ UNCHANGED <<next_person_id, next_account_id>>
    /\ UNCHANGED <<pending, last_commit>>
    /\ DbFrame

\* create_bank_account (bank_server.py:17-49)
create_bank_account(person_id, bank_name, balance) ==
    /\ LET person == SelectPerson(person_id)
           call == [op |-> "create_bank_account", id |-> person_id]
       IN  IF person = None
              THEN /\ Respond(call, Failure("Person with ID " \o ToString(person_id) \o " not found"))
                   /\ ReadOnly
              ELSE /\ next_account_id <= MaxAccounts
                   /\ LET row == [accountId |-> next_account_id, personId |-> person_id,
                                  bankName |-> bank_name, balance |-> balance]
                      IN  /\ accounts' = accounts \cup {row}
                          /\ Respond(call, [success |-> TRUE, account |-> row])
                   /\ next_account_id' = next_account_id + 1
                   /\ UNCHANGED <<persons, next_person_id>>
    /\ UNCHANGED <<pending, last_commit>>
    /\ DbFrame

\* get_bank_account (bank_server.py:51-72)
get_bank_account(account_id) ==
    /\ LET row == SelectAccount(account_id)
       IN  Respond([op |-> "get_bank_account", id |-> account_id],
                   IF row # None THEN [success |-> TRUE, account |-> row[1]]
                   ELSE Failure("Bank account not found"))
    /\ ReadOnly
    /\ UNCHANGED <<pending, last_commit>>
    /\ DbFrame

\* list_bank_accounts (bank_server.py:74-98)
list_bank_accounts ==
    /\ Respond([op |-> "list_bank_accounts"],
               [success |-> TRUE, accounts |-> accounts, count |-> Cardinality(accounts)])
    /\ ReadOnly
    /\ UNCHANGED <<pending, last_commit>>
    /\ DbFrame

RECURSIVE SumBalances(_)
\* `total_balance = 0; for row in rows: total_balance += row["balance"]`
SumBalances(rows) ==
    IF rows = {} THEN 0
    ELSE LET r == CHOOSE x \in rows : TRUE
         IN  r.balance + SumBalances(rows \ {r})

\* the entries appended to `accounts` (bank_server.py:121-125, 240-244)
AccountEntry(row) ==
    [accountId |-> row.accountId, bankName |-> row.bankName, balance |-> row.balance]

\* get_accounts_by_person (bank_server.py:100-136)
get_accounts_by_person(person_id) ==
    /\ LET person == SelectPerson(person_id)
           rows == {a \in accounts : a.personId = person_id}
       IN  Respond([op |-> "get_accounts_by_person", id |-> person_id],
                   IF person = None
                      THEN Failure("Person with ID " \o ToString(person_id) \o " not found")
                      ELSE [success |-> TRUE, person |-> person[1].name,
                            accounts |-> {AccountEntry(r) : r \in rows},
                            total_balance |-> SumBalances(rows),
                            count |-> Cardinality(rows)])
    /\ ReadOnly
    /\ UNCHANGED <<pending, last_commit>>
    /\ DbFrame

\* lines 150-158 of update_bank_account: the merged row, which is what the
\* UPDATE writes and what the "account" entry of the result holds
UbaRow(account_id, bank_name, balance, current) ==
    [accountId |-> account_id, personId |-> current.personId,
     bankName |-> OrCurrent(bank_name, current.bankName),
     balance |-> IfNotNone(balance, current.balance)]

\* variant: the UPDATE sets the balance column only
UbaWriteBalanceOnly(accts, row) ==
    {IF a.accountId = row.accountId THEN [a EXCEPT !.balance = row.balance] ELSE a : a \in accts}

\* `UPDATE bank_accounts SET bankName = ?, balance = ? WHERE accountId = ?`
\* (bank_server.py:161-164): one statement, both columns
UbaWrite(accts, row) ==
    {IF a.accountId = row.accountId
        THEN [a EXCEPT !.bankName = row.bankName, !.balance = row.balance]
        ELSE a : a \in accts}

\* update_bank_account (bank_server.py:138-178), run without interruption
update_bank_account(account_id, bank_name, balance) ==
    /\ LET current == SelectAccount(account_id)
           call == [op |-> "update_bank_account", id |-> account_id]
       IN  IF current = None
              THEN Respond(call, Failure("Bank account not found")) /\ UNCHANGED accounts
              ELSE LET row == UbaRow(account_id, bank_name, balance, current[1])
                   IN  /\ accounts' = UbaWrite(accounts, row)
                       /\ Respond(call, [success |-> TRUE, account |-> row])
    /\ UNCHANGED <<persons, next_person_id, next_account_id, pending, last_commit>>
    /\ DbFrame

\* delete_bank_account (bank_server.py:180-203)
delete_bank_account(account_id) ==
    /\ LET account == SelectAccount(account_id)
           call == [op |-> "delete_bank_account", id |-> account_id]
       IN  IF account = None
              THEN Respond(call, Failure("Bank account not found")) /\ UNCHANGED accounts
              ELSE /\ accounts' = accounts \ {account[1]}
                   /\ Respond(call, [success |-> TRUE])
    /\ UNCHANGED <<persons, next_person_id, next_account_id, pending, last_commit>>
    /\ DbFrame

\* a joined row whose bank_accounts side is NULL
NullAccount == [accountId |-> 0, bankName |-> "", balance |-> 0]

\* variant: INNER JOIN, a person without accounts yields no row
InnerJoinRows(person_id) ==
    {[person |-> q, account |-> AccountEntry(a)] :
        q \in {x \in persons : x.id = person_id},
        a \in {y \in accounts : y.personId = person_id}}

\* `FROM persons p LEFT JOIN bank_accounts b ON p.id = b.personId WHERE p.id = ?`
\* (bank_server.py:213-222); a NULL accountId is falsy like 0
JoinRows(person_id) ==
    LET ps == {x \in persons : x.id = person_id}
        matching == {y \in accounts : y.personId = person_id}
    IN  IF matching = {}
           THEN {[person |-> q, account |-> NullAccount] : q \in ps}
           ELSE {[person |-> q, account |-> AccountEntry(a)] : q \in ps, a \in matching}

\* get_person_with_accounts (bank_server.py:205-254)
get_person_with_accounts(person_id) ==
    /\ LET rows == JoinRows(person_id)
           call == [op |-> "get_person_with_accounts", id |-> person_id]
       IN  IF rows = {}
              THEN Respond(call, Failure("Person not found"))
              ELSE LET first_row == CHOOSE r \in rows : TRUE
                       kept == {r.account : r \in {x \in rows : x.account.accountId # 0}}
                   IN  Respond(call,
                               [success |-> TRUE,
                                data |-> [id |-> first_row.person.id,
                                          name |-> first_row.person.name,
                                          age |-> first_row.person.age,
                                          email |-> first_row.person.email,
                                          accounts |-> kept,
                                          total_balance |-> SumBalances(kept)]])
    /\ ReadOnly
    /\ UNCHANGED <<pending, last_commit>>
    /\ DbFrame

\* a new database file; the foreign_keys pragma is whatever the SQLite
\* build defaults to, the code never sets it
DbInit ==
    /\ SupIdle
    /\ NzIdle
    /\ DbEmpty
    /\ RagIdle
    /\ foreign_keys \in BOOLEAN

DbNext ==
    \/ \E name \in Names, age \in Ages, email \in Emails : create_person(name, age, email)
    \/ \E person_id \in PersonIds : get_person(person_id)
    \/ list_persons
    \/ \E name \in Names : search_person_by_name(name)
    \/ \E person_id \in PersonIds, name \in Opt(Names), age \in Opt(Ages), email \in Opt(Emails) :
          update_person(person_id, name, age, email)
    \/ \E person_id \in PersonIds : delete_person(person_id)
    \/ \E person_id \in PersonIds, bank_name \in BankNames, balance \in Balances :
          create_bank_account(person_id, bank_name, balance)
    \/ \E account_id \in AccountIds : get_bank_account(account_id)
    \/ list_bank_accounts
    \/ \E person_id \in PersonIds : get_accounts_by_person(person_id)
    \/ \E account_id \in AccountIds, bank_name \in Opt(BankNames), balance \in Opt(Balances) :
          update_bank_account(account_id, bank_name, balance)
    \/ \E account_id \in AccountIds : delete_bank_account(account_id)
    \/ \E person_id \in PersonIds : get_person_with_accounts(person_id)

DbSpec == DbInit /\ [][DbNext]_vars

\* ------------------------------ update_bank_account by several processes
\* Every process_query starts its own bank server (crew_supervisor.py:111),
\* so several server processes can run update_bank_account on one database
\* file.  The SELECT (line 150) takes no lock that outlives it; the UPDATE
\* and its commit (lines 161-165) hold the write lock of the file.

\* lines 146-158: read the row and merge the arguments into the locals
UbaSelect(c, account_id, bank_name, balance) ==
    /\ pending[c] = None
    /\ LET current == SelectAccount(account_id)
       IN  IF current = None
              THEN /\ Respond([op |-> "update_bank_account", id |-> account_id],
                              Failure("Bank account not found"))
                   /\ UNCHANGED pending
              ELSE /\ pending' = [pending EXCEPT ![c] =
                                    Some([row |-> UbaRow(account_id, bank_name, balance, current[1]),
                                          current |-> current[1]])]
                   /\ UNCHANGED <<db_call, db_result>>
    /\ ReadOnly
    /\ UNCHANGED last_commit
    /\ DbFrame

\* lines 161-176: the UPDATE, its commit and the result; last_commit keeps
\* the returned "account" and whether the row had changed since the SELECT
UbaUpdate(c) ==
    /\ pending[c] # None
    /\ LET row == pending[c][1].row
           now == SelectAccount(row.accountId)
       IN  /\ accounts' = UbaWrite(accounts, row)
           /\ Respond([op |-> "update_bank_account", id |-> row.accountId],
                      [success |-> TRUE, account |-> row])
           /\ last_commit' = [last_commit EXCEPT ![row.accountId] =
                                 Some([account |-> row,
                                       stale |-> now # Some(pending[c][1].current)])]
    /\ pending' = [pending EXCEPT ![c] = None]
    /\ UNCHANGED <<persons, next_person_id, next_account_id>>
    /\ DbFrame

\* line 161 while another process holds the write lock past the busy
\* timeout: sqlite3.OperationalError, caught at line 177
UbaBusy(c) ==
    /\ pending[c] # None
    /\ \E o \in Callers \ {c} : pending[o] # None
    /\ Respond([op |-> "update_bank_account", id |-> pending[c][1].row.accountId],
               Failure("database is locked"))
    /\ pending' = [pending EXCEPT ![c] = None]
    /\ ReadOnly
    /\ UNCHANGED last_commit
    /\ DbFrame

\* a database holding one person with one account
DbConcInit ==
    /\ SupIdle
    /\ NzIdle
    /\ foreign_keys = FALSE
    /\ persons = {[id |-> 1, name |-> "ann", age |-> 30, email |-> "a@x.com"]}
    /\ \E bank_name \in BankNames, balance \in Balances :
          accounts = {[accountId |-> 1, personId |-> 1,
                       bankName |-> bank_name, balance |-> balance]}
    /\ next_person_id = 2
    /\ next_account_id = 2
    /\ pending = [c \in Callers |-> None]
    /\ db_call = None
    /\ db_result = None
    /\ last_commit = [a \in 1..MaxAccounts |-> None]
    /\ RagIdle

DbConcNext ==
    \E c \in Callers :
        \/ \E account_id \in AccountIds, bank_name \in Opt(BankNames), balance \in Opt(Balances) :
              UbaSelect(c, account_id, bank_name, balance)
        \/ UbaUpdate(c)
        \/ UbaBusy(c)

DbConcSpec == DbConcInit /\ [][DbConcNext]_vars

\* --------------------------------------------------- the document index
\* basenames of the files RESOURCES_DIR.glob("*.pdf") can list
PdfNames == [i \in 1..MaxFiles |-> "doc" \o ToString(i) \o ".pdf"]

\* the directory listings: the first n files, each splitting into some number
\* of chunks, or None when loading it raises
PdfListings ==
    UNION {[1..n -> Opt(0..MaxChunks)] : n \in 0..MaxFiles}

\* `id=i` of `for i, (chunk, embedding) in enumerate(zip(chunks, embeddings))`
\* (rag_pipeline.py:82-85): the position of the chunk in its own file
PointId(file_index, i) == i

\* the points index_pdf builds for a file of n chunks (lines 81-95)
PointsOf(file_index, n) ==
    [id \in {PointId(file_index, i) : i \in 0..(n - 1)} |->
        [source |-> PdfNames[file_index], chunk |-> id]]

\* client.upload_points (lines 98-101): a point whose id is in the collection
\* replaces the stored one
Upsert(stored, new) ==
    [id \in DOMAIN stored \cup DOMAIN new |-> IF id \in DOMAIN new THEN new[id] ELSE stored[id]]

\* index_all_pdfs up to the loop (lines 126-147): no file, return the empty
\* list; else the collection is deleted and created again
IndexStart ==
    /\ rag_pc = "start"
    /\ IF pdf_files = <<>>
          THEN rag_pc' = "done" /\ UNCHANGED points
          ELSE rag_pc' = "indexing" /\ points' = <<>>
    /\ UNCHANGED <<pdf_files, rag_results>>
    /\ UNCHANGED <<sup_vars, nz_vars, db_vars>>

\* one round of the loop (lines 150-152): index_pdf (lines 60-122) on the
\* next file, its outcome appended
index_pdf ==
    /\ rag_pc = "indexing"
    /\ Len(rag_results) < Len(pdf_files)
    /\ LET file_index == Len(rag_results) + 1
           chunks == pdf_files[file_index]
           failed == [success |-> FALSE, file |-> PdfNames[file_index]]
       IN  \/ /\ chunks # None
              /\ points' = Upsert(points, PointsOf(file_index, chunks[1]))
              /\ rag_results' = Append(rag_results,
                                       [success |-> TRUE, file |-> PdfNames[file_index],
                                        chunks |-> chunks[1]])
           \/ /\ rag_results' = Append(rag_results, failed)
              /\ UNCHANGED points
    /\ UNCHANGED <<rag_pc, pdf_files>>
    /\ UNCHANGED <<sup_vars, nz_vars, db_vars>>

\* the summary and `return results` (lines 154-160)
IndexReturn ==
    /\ rag_pc = "indexing"
    /\ Len(rag_results) = Len(pdf_files)
    /\ rag_pc' = "done"
    /\ UNCHANGED <<pdf_files, points, rag_results>>
    /\ UNCHANGED <<sup_vars, nz_vars, db_vars>>

RagInit ==
    /\ SupIdle
    /\ NzIdle
    /\ DbEmpty
    /\ foreign_keys = FALSE
    /\ rag_pc = "start"
    /\ pdf_files \in PdfListings
    /\ points = <<>>
    /\ rag_results = <<>>

RagNext ==
    \/ IndexStart
    \/ index_pdf
    \/ IndexReturn

RagSpec == RagInit /\ [][RagNext]_vars

\* --------------------------------------- the synthesis step on its own
\* lists a `worker_results` of at most two entries can be
WorkerResultLists ==
    LET entries == ({"MCP"} \X McpTexts) \cup ({"RAG"} \X RagTexts)
    IN  {<<>>} \cup {<<e>> : e \in entries} \cup {<<e, f>> : e \in entries, f \in entries}

\* lines 315-363 entered with any such list
SynthInit ==
    /\ pc = "synthesize"
    /\ query \in Queries
    /\ route = "BOTH"
    /\ attempt = 1
    /\ worker_results \in WorkerResultLists
    /\ current_answer = None
    /\ final_answer = None
    /\ validation = None
    /\ result = None
    /\ calls = [c \in Crews |-> 0]
    /\ handed = {}
    /\ verdicts = <<>>
    /\ raised = "none"
    /\ escaped = FALSE
    /\ NzIdle
    /\ DbEmpty
    /\ RagIdle
    /\ foreign_keys = FALSE

SynthSpec == SynthInit /\ [][Synthesize]_vars

\* ------------------------------------- the reply normalisers on their own
RECURSIVE TextsUpTo(_)
\* the texts of at most n words, joined by single spaces
TextsUpTo(n) ==
    IF n = 0 THEN {<<>>}
    ELSE LET shorter == TextsUpTo(n - 1)
         IN  shorter \cup Words
                \cup {t \o <<" ">> \o w : t \in shorter \ {<<>>}, w \in Words}

\* the `output` arguments tried
NzTexts == TextsUpTo(MaxWords) \cup ClassifierReplies \cup ValidatorReplies

NzInit ==
    /\ SupIdle
    /\ DbEmpty
    /\ RagIdle
    /\ foreign_keys = FALSE
    /\ nz_text \in NzTexts
    /\ nz_route = "unbound"
    /\ nz_validation = None

\* a call _parse_routing_decision(nz_text); the method reads no attribute of
\* self and assigns none
ParseRouting ==
    /\ nz_route' = _parse_routing_decision(nz_text)
    /\ UNCHANGED <<nz_text, nz_validation, sup_vars, db_vars, rag_vars>>

\* a call _parse_validation_result(nz_text)
ParseValidation ==
    /\ nz_validation' = Some(_parse_validation_result(nz_text))
    /\ UNCHANGED <<nz_text, nz_route, sup_vars, db_vars, rag_vars>>

NzNext ==
    \/ ParseRouting
    \/ ParseValidation

ParseSpec == NzInit /\ [][NzNext]_vars

\* ------------------------ the normalisers on the replies the prompts ask for
\* 'MCP', 'RAG' or 'BOTH' (lines 240-242); 'ACCEPT or RETRY_WITH_MCP or
\* RETRY_WITH_RAG or RETRY_WITH_BOTH' (lines 394-396)
PromptReplies ==
    {ReplyMCP, ReplyRAG, ReplyBOTH, ReplyAccept, ReplyRetryMcp, ReplyRetryRag, ReplyRetryBoth}

\* the text in every letter case: the letters at the positions of m lowered
Recasings(text) ==
    {[i \in 1..Len(text) |->
         IF i \in m /\ text[i] \in DOMAIN UpperToLower THEN UpperToLower[text[i]] ELSE text[i]] :
       m \in SUBSET (1..Len(text))}

CaseInit ==
    /\ SupIdle
    /\ DbEmpty
    /\ RagIdle
    /\ foreign_keys = FALSE
    /\ nz_text \in UNION {Recasings(reply) : reply \in PromptReplies}
    /\ nz_route = "unbound"
    /\ nz_validation = None

CaseSpec == CaseInit /\ [][NzNext]_vars

\* --------------------------------------------------------------- typing
TypeOK ==
    /\ pc \in {"person_tools", "bank_tools", "routing", "loop", "exec_mcp", "exec_rag",
               "synthesize", "validate", "return", "done"}
    /\ query \in Queries
    /\ route \in {"unbound", "MCP", "RAG", "BOTH"}
    /\ attempt \in Nat
    /\ Len(worker_results) <= 2
    /\ raised \in Sites \cup {"none"}
    /\ escaped \in BOOLEAN

\* ---------------------------------------------------------------- claims
Last(sq) == sq[Len(sq)]

AllRetry(sq) == \A i \in 1..Len(sq) : sq[i] = "RETRY"

Returned == pc = "done" /\ result # None

\* C1: a run in which no call raised and every verdict was RETRY ends after
\* exactly 3 validations (3 worker rounds) with success=false, the
\* exhaustion error and attempts=3.
C1_AlwaysRetryExhausts ==
    (pc = "done" /\ raised = "none" /\ AllRetry(verdicts)) =>
        /\ Len(verdicts) = 3
        /\ calls["validator"] = 3
        /\ calls["mcp"] + calls["rag"] >= 3
        /\ result = Some([success |-> FALSE, query |-> query, error |-> ExhaustedError,
                          attempts |-> 3, pattern |-> PatternTag])

\* C1 witness: three RETRY verdicts, the last two attempts on different routes
C1_Witness ==
    /\ pc = "done"
    /\ raised = "none"
    /\ verdicts = <<"RETRY", "RETRY", "RETRY">>
    /\ calls["synthesis"] >= 1
    /\ calls["synthesis"] < 3
    /\ result[1].success = FALSE

\* C2 (as stated): once bound, the attempt counter is always within
\* 1..MAX_ATTEMPTS.
C2_AttemptWithinMax ==
    attempt # 0 => attempt \in 1..max_attempts

\* C2 (amended): once bound, the attempt counter is within 1..MAX_ATTEMPTS+1;
\* it is MAX_ATTEMPTS+1 only after the third RETRY verdict, when no further
\* attempt is executed; every worker, synthesis and validation step runs with
\* the counter within 1..MAX_ATTEMPTS, and so is the reported attempts value.
C2_AttemptBounded ==
    /\ attempt # 0 => attempt \in 1..(max_attempts + 1)
    /\ attempt = max_attempts + 1 =>
          /\ pc \in {"loop", "return", "done"}
          /\ Len(verdicts) = max_attempts
          /\ AllRetry(verdicts)
    /\ pc \in {"exec_mcp", "exec_rag", "synthesize", "validate"} =>
          attempt \in 1..max_attempts
    /\ (result # None /\ "attempts" \in DOMAIN result[1]) =>
          result[1].attempts \in 1..max_attempts

\* C2 witness: the counter stands at 4 after the third RETRY
C2_Witness ==
    /\ attempt = max_attempts + 1
    /\ pc = "done"
    /\ result[1].attempts = max_attempts

\* C3: a run whose last verdict is ACCEPT returns success=true with result
\* equal to that attempt's candidate answer, whatever the text, and makes no
\* call after the accepting validation.
C3_AcceptReturnsCandidate ==
    (pc = "done" /\ raised = "none" /\ verdicts # <<>> /\ Last(verdicts) = "ACCEPT") =>
        /\ calls["validator"] = Len(verdicts)
        /\ result[1].success = TRUE
        /\ result[1].result = current_answer[1]

\* C4: no exception leaves process_query; a finished run has returned a dict
\* with a boolean success entry, and a run in which a call raised has
\* finished with success=false.
C4_NeverRaises ==
    /\ escaped = FALSE
    /\ pc = "done" =>
          /\ result # None
          /\ "success" \in DOMAIN result[1]
          /\ result[1].success \in BOOLEAN
    /\ raised # "none" =>
          /\ pc = "done"
          /\ result # None
          /\ result[1].success = FALSE

\* C4 witness: the second tool-channel connection failed and a dict came back
C4_Witness ==
    /\ pc = "done"
    /\ raised = "bank_tools"
    /\ result # None
    /\ result[1].success = FALSE

\* C5: the step in which a worker raises does not end the run; it adds a
\* WorkerResult for that worker and the attempt goes on.
C5_WorkerFailureContinues ==
    [][(raised = "none" /\ raised' \in {"mcp", "rag"}) =>
          /\ pc' # "done"
          /\ Len(worker_results') = Len(worker_results) + 1]_vars

\* C6: the step in which the validator raises acts as a RETRY verdict with
\* the route unchanged: the counter advances by one and the run goes on.
C6_ValidatorFailureRetries ==
    [][(raised = "none" /\ raised' = "validator") =>
          /\ attempt' = attempt + 1
          /\ route' = route
          /\ pc' # "done"]_vars

\* C7: when the classifier call raised, the run has returned success=false
\* with the error of that failure, no route was ever bound and no worker,
\* synthesis or validation call was made.
C7_ClassifierFailureAborts ==
    raised = "classifier" =>
        /\ pc = "done"
        /\ result # None
        /\ result[1].success = FALSE
        /\ "error" \in DOMAIN result[1]
        /\ result[1].error = ErrorText("classifier")
        /\ route = "unbound"
        /\ calls["classifier"] = 1
        /\ \A c \in {"mcp", "rag", "synthesis", "validator"} : calls[c] = 0

\* C7 witness: a run ended by the classifier's failure
C7_Witness ==
    /\ raised = "classifier"
    /\ pc = "done"
    /\ calls["classifier"] = 1

\* C8: no Document worker text held in worker_results, no candidate answer
\* and no returned result contains a match of the 12-digit identifier pattern.
C8_NoUnmaskedIdentifier ==
    /\ \A i \in 1..Len(worker_results) :
          worker_results[i][1] = "RAG" => ~HasAadhar(worker_results[i][2])
    /\ current_answer # None => ~HasAadhar(current_answer[1])
    /\ (Returned /\ "result" \in DOMAIN result[1]) => ~HasAadhar(result[1].result)

\* C9: every returned dict has the entries success, query, attempts and
\* pattern, and one of result and error.
C9_FiveFields ==
    Returned =>
        /\ {"success", "query", "attempts", "pattern"} \subseteq DOMAIN result[1]
        /\ {"result", "error"} \cap DOMAIN result[1] # {}

\* C10: when the k-th verdict is the first ACCEPT of a run in which no call
\* raised, the returned dict has success=true and attempts=k.
C10_AttemptsIsAcceptIndex ==
    (pc = "done" /\ raised = "none" /\ verdicts # <<>> /\ Last(verdicts) = "ACCEPT"
        /\ AllRetry(SubSeq(verdicts, 1, Len(verdicts) - 1))) =>
        /\ result[1].success = TRUE
        /\ result[1].attempts = Len(verdicts)

\* C19 (as stated): the route returned for a text is BOTH if the text
\* contains 'both' in any case, else MCP if it contains a database term, else
\* RAG if it contains a document term, else BOTH.
C19_RouteByTerms ==
    nz_route # "unbound" =>
        LET t == Lower(nz_text)
        IN  nz_route =
               IF Contains(t, KwBoth) THEN "BOTH"
               ELSE IF \E k \in {KwMcp, KwDatabase} : Contains(t, k) THEN "MCP"
               ELSE IF \E k \in {KwRag, KwDocument} : Contains(t, k) THEN "RAG"
               ELSE "BOTH"

\* C19 (amended): the route returned for a text is BOTH if the text contains
\* 'both' or 'mcp_and_rag' in any case, else MCP if it contains 'mcp' or
\* 'database', else RAG if it contains 'rag' or 'document', else BOTH; the
\* call leaves the text as it was.
C19_RouteByTermsOrMcpAndRag ==
    /\ nz_text \in NzTexts
    /\ nz_route # "unbound" =>
          LET t == Lower(nz_text)
          IN  nz_route =
                 IF \E k \in {KwBoth, KwMcpAndRag} : Contains(t, k) THEN "BOTH"
                 ELSE IF \E k \in {KwMcp, KwDatabase} : Contains(t, k) THEN "MCP"
                 ELSE IF \E k \in {KwRag, KwDocument} : Contains(t, k) THEN "RAG"
                 ELSE "BOTH"

\* C19 witness: a text naming both a database and a document term, and not
\* 'both', was routed to MCP
C19_Witness ==
    /\ nz_route = "MCP"
    /\ Contains(Lower(nz_text), KwRag)
    /\ Contains(Lower(nz_text), KwDatabase)

\* C20: the status returned for a reply is ACCEPT if the reply contains an
\* accept keyword, else RETRY if it contains a retry keyword, else ACCEPT.
C20_StatusByKeywords ==
    nz_validation # None =>
        LET t == Lower(nz_text)
            accepting == \E k \in accept_keywords : Contains(t, k)
            retrying  == \E k \in retry_keywords : Contains(t, k)
        IN  nz_validation[1].status =
               IF accepting THEN "ACCEPT" ELSE IF retrying THEN "RETRY" ELSE "ACCEPT"

\* C20 witness: a reply holding both an accept and a retry keyword was accepted
C20_Witness ==
    /\ nz_validation # None
    /\ nz_validation[1].status = "ACCEPT"
    /\ Contains(Lower(nz_text), <<"a", "c", "c", "e", "p", "t">>)
    /\ Contains(Lower(nz_text), <<"r", "e", "t", "r", "y">>)

\* worker names of a worker_results list, in order
WorkerNames(wr) == [i \in 1..Len(wr) |-> wr[i][1]]

\* the names the workers selected by a route leave, Database worker first
ExpectedNames(r) ==
    (IF r \in {"MCP", "BOTH"} THEN <<"MCP">> ELSE <<>>)
        \o (IF r \in {"RAG", "BOTH"} THEN <<"RAG">> ELSE <<>>)

\* C16: the Database worker is called in an attempt iff the route is MCP or
\* BOTH and the Document worker iff it is RAG or BOTH; results are collected
\* Database worker first, and every selected worker has returned before a
\* synthesis or validation call starts.
C16_WorkersByRoute ==
    /\ [](/\ pc = "exec_rag" =>
                WorkerNames(worker_results) = (IF route \in {"MCP", "BOTH"} THEN <<"MCP">> ELSE <<>>)
          /\ pc \in {"synthesize", "validate"} =>
                WorkerNames(worker_results) = ExpectedNames(route))
    /\ [][/\ (pc = "exec_mcp" /\ pc' # pc) =>
                calls'["mcp"] = calls["mcp"] + (IF route \in {"MCP", "BOTH"} THEN 1 ELSE 0)
          /\ (pc = "exec_rag" /\ pc' # pc) =>
                calls'["rag"] = calls["rag"] + (IF route \in {"RAG", "BOTH"} THEN 1 ELSE 0)
          /\ calls'["mcp"] # calls["mcp"] => pc = "exec_mcp"
          /\ calls'["rag"] # calls["rag"] => pc = "exec_rag"
          /\ (calls'["synthesis"] # calls["synthesis"] \/ calls'["validator"] # calls["validator"]) =>
                WorkerNames(worker_results) = ExpectedNames(route)]_vars

\* C16 witness: under BOTH the two results stand in call order before synthesis
C16_Witness ==
    /\ pc = "synthesize"
    /\ route = "BOTH"
    /\ WorkerNames(worker_results) = <<"MCP", "RAG">>
    /\ calls["mcp"] = 1
    /\ calls["rag"] = 1

\* C17: the step of lines 315-363 calls the synthesis crew iff two or more
\* worker results were collected and then takes the crew's text as candidate
\* answer; with one result the candidate answer is that result's text and no
\* synthesis call is made; with none it is the sentinel text.
C17_SynthesisByResultCount ==
    [][pc = "synthesize" =>
          /\ IF Len(worker_results) >= 2
                THEN calls'["synthesis"] = calls["synthesis"] + 1
                ELSE calls' = calls
          /\ (Len(worker_results) >= 2 /\ raised' = "none") =>
                /\ pc' = "validate"
                /\ current_answer' # None
                /\ current_answer'[1] \in SynthTexts
          /\ Len(worker_results) = 1 =>
                /\ pc' = "validate"
                /\ current_answer' = Some(worker_results[1][2])
          /\ Len(worker_results) = 0 =>
                /\ pc' = "validate"
                /\ current_answer' = Some(TxtNoAgents)]_vars

\* C17 witness: no worker result, the sentinel became the candidate answer
C17_Witness ==
    /\ pc = "validate"
    /\ worker_results = <<>>
    /\ current_answer = Some(TxtNoAgents)
    /\ calls["synthesis"] = 0

\* C18: the step that records a RETRY verdict while the counter is below 3
\* adds exactly one to the counter, sets the route to the verdict's
\* next_agent and returns to the loop head; the next attempt starts from an
\* empty result list and collects the workers of the new route only.
C18_RetryAdvances ==
    /\ [][(pc = "validate" /\ Len(verdicts') = Len(verdicts) + 1
              /\ Last(verdicts') = "RETRY" /\ attempt < max_attempts) =>
             /\ attempt' = attempt + 1
             /\ route' = validation'[1].next_agent
             /\ pc' = "loop"]_vars
    /\ [][(pc = "loop" /\ pc' = "exec_mcp") =>
             (worker_results' = <<>> /\ route' = route)]_vars
    /\ [](pc = "synthesize" =>
             {worker_results[i][1] : i \in 1..Len(worker_results)} =
                 (IF route = "MCP" THEN {"MCP"} ELSE IF route = "RAG" THEN {"RAG"}
                  ELSE {"MCP", "RAG"}))

\* C18 witness: after a RETRY naming RAG the second attempt ran the Document
\* worker only, the first having run the Database worker
C18_Witness ==
    /\ pc = "synthesize"
    /\ attempt = 2
    /\ verdicts = <<"RETRY">>
    /\ route = "RAG"
    /\ validation = Some([status |-> "RETRY", next_agent |-> "RAG"])
    /\ WorkerNames(worker_results) = <<"RAG">>
    /\ calls["mcp"] = 1
    /\ calls["rag"] = 1

\* --------------------------------------------- claims on the record store

\* the call of the last record-store step and its result
DbCalled(op) == db_call # None /\ db_call[1].op = op

\* C11: after any sequence of record-store operations every bank account's
\* personId refers to an existing person (so none of a deleted person's
\* accounts remains).
C11_NoOrphanAccounts ==
    \A a \in accounts : \E p \in persons : p.id = a.personId

\* the call addresses another person's email
WouldDuplicate(call) ==
    \/ /\ call.op = "create_person"
       /\ \E q \in persons : q.email = call.email
    \/ /\ call.op = "update_person"
       /\ call.email # None
       /\ \E q \in persons : q.email = call.email[1] /\ q.id # call.id

\* C12: no two persons ever have the same email, and a create_person or
\* update_person that would duplicate an existing email returns
\* success=false and leaves the persons table unchanged.
C12_EmailUnique ==
    /\ [](\A p \in persons, q \in persons : p.email = q.email => p = q)
    /\ [][(db_call' # None /\ WouldDuplicate(db_call'[1]))
            => /\ db_result'[1].success = FALSE
               /\ persons' = persons]_vars

\* an update_person of an existing person to the email of another one failed
C12_Witness ==
    /\ DbCalled("update_person")
    /\ SelectPerson(db_call[1].id) # None
    /\ WouldDuplicate(db_call[1])
    /\ db_result[1].success = FALSE
    /\ Cardinality(persons) = 2

PersonOps ==
    {"get_person", "update_person", "delete_person", "get_accounts_by_person",
     "get_person_with_accounts", "create_bank_account"}

AccountOps == {"get_bank_account", "update_bank_account", "delete_bank_account"}

\* the call addresses a person id or an account id that is not in the store
Missing(call) ==
    \/ call.op \in PersonOps /\ SelectPerson(call.id) = None
    \/ call.op \in AccountOps /\ SelectAccount(call.id) = None

\* C13: every record-store operation returns a result with a success flag;
\* one addressed to a missing person id or account id returns success=false
\* with a non-empty error string and leaves both tables unchanged.
C13_MissingIdFails ==
    /\ [](db_call # None => (db_result # None /\ "success" \in DOMAIN db_result[1]))
    /\ [][(db_call' # None /\ Missing(db_call'[1]))
            => /\ db_result'[1].success = FALSE
               /\ db_result'[1].error # ""
               /\ persons' = persons
               /\ accounts' = accounts]_vars

\* an update of a missing account failed while other rows exist
C13_Witness ==
    /\ DbCalled("update_bank_account")
    /\ Missing(db_call[1])
    /\ db_result[1].success = FALSE
    /\ db_result[1].error = "Bank account not found"
    /\ accounts # {}

RECURSIVE C14_SumTo(_, _)
\* the balances of person_id's accounts with ids up to n, added in id order
C14_SumTo(n, person_id) ==
    IF n = 0 THEN 0
    ELSE LET held == {a \in accounts : a.accountId = n /\ a.personId = person_id}
         IN  C14_SumTo(n - 1, person_id)
               + (IF held = {} THEN 0 ELSE (CHOOSE a \in held : TRUE).balance)

\* C14: for an existing person get_person_with_accounts returns the person's
\* fields, exactly the accounts whose personId is the id, and their balances'
\* sum (0 and no accounts when the person has none).
C14_PersonWithAccounts ==
    (DbCalled("get_person_with_accounts") /\ SelectPerson(db_call[1].id) # None)
    => LET person == SelectPerson(db_call[1].id)[1]
           owned == {a \in accounts : a.personId = person.id}
           res == db_result[1]
       IN  /\ res.success = TRUE
           /\ res.data.id = person.id
           /\ res.data.name = person.name
           /\ res.data.age = person.age
           /\ res.data.email = person.email
           /\ res.data.accounts =
                 {[accountId |-> a.accountId, bankName |-> a.bankName, balance |-> a.balance] :
                     a \in owned}
           /\ res.data.total_balance = C14_SumTo(MaxAccounts, person.id)
           /\ (owned = {} => res.data.accounts = {} /\ res.data.total_balance = 0)

\* the call returned two accounts of one person and the sum of their balances
C14_Witness ==
    /\ DbCalled("get_person_with_accounts")
    /\ db_result[1].success = TRUE
    /\ Cardinality(db_result[1].data.accounts) = 2
    /\ db_result[1].data.total_balance = 30

\* the call returned a person who has no account
C14_WitnessNoAccounts ==
    /\ DbCalled("get_person_with_accounts")
    /\ db_result[1].success = TRUE
    /\ db_result[1].data.accounts = {}
    /\ accounts # {}

\* C15: under any interleaving of concurrent update_bank_account calls the
\* row of an account equals the complete row written (and returned) by the
\* last call that committed on it, never a mix of fields of different calls.
C15_LastWriterWins ==
    \A a \in accounts :
        last_commit[a.accountId] # None => a = last_commit[a.accountId][1].account

\* the last commit came from a call whose SELECT another call's commit had
\* overtaken, and changed the row
C15_Witness ==
    \E a \in accounts :
        /\ last_commit[a.accountId] # None
        /\ last_commit[a.accountId][1].stale
        /\ a = last_commit[a.accountId][1].account
        /\ \E c \in Callers : pending[c] # None /\ pending[c][1].current # a

\* ------------------------------------- further claims on process_query
\* the text holds both 'engine number' and 'en12345xyz', in any letter case
HoldsEngineNumber(text) ==
    Contains(Lower(text), KwEngineNumber) /\ Contains(Lower(text), KwEngineValue)

\* the validation step of an attempt has returned
Validated == pc = "validate" /\ pc' \in {"loop", "return"}

\* C21: whenever the candidate answer of an attempt contains both 'engine
\* number' and 'en12345xyz' (case-insensitive), the verdict of that attempt
\* is ACCEPT, whatever the validator's reply is.
C21_EngineAnswerAccepted ==
    [][(Validated /\ HoldsEngineNumber(current_answer[1]))
          => validation'[1].status = "ACCEPT"]_vars

\* C22: for every validator reply that yields RETRY, next_agent is the route
\* of the source the reply names, by any name the routing normaliser
\* recognises, and BOTH when it names none: the route the routing normaliser
\* gives for the same reply.
C22_NextRouteByNamedSource ==
    (nz_validation # None /\ nz_validation[1].status = "RETRY")
        => nz_validation[1].next_agent = _parse_routing_decision(nz_text)

\* C23: the classifier is invoked exactly once per run, before the first
\* attempt, and never on a retry, where the route is the validator's
\* next_agent.
C23_ClassifiedOnce ==
    /\ [](calls["classifier"] <= 1)
    /\ [](attempt >= 1 => calls["classifier"] = 1)
    /\ [][calls'["classifier"] # calls["classifier"]
            => /\ pc = "routing"
               /\ attempt = 0
               /\ \A c \in Crews : calls[c] = 0]_vars
    /\ [][(attempt >= 1 /\ route' # route)
            => /\ pc = "validate"
               /\ validation'[1].status = "RETRY"
               /\ route' = validation'[1].next_agent
               /\ calls'["classifier"] = calls["classifier"]]_vars

\* a third attempt routed to the Database worker, which the run has not
\* called yet: the route changed on a retry, with one classification made
C23_Witness ==
    /\ attempt = 3
    /\ Len(verdicts) = 2
    /\ route = "MCP"
    /\ calls["mcp"] = 0
    /\ calls["rag"] = 2
    /\ calls["classifier"] = 1

\* C24: each attempt starts with an empty worker_results list and its
\* candidate answer is built only from the results of the workers run in that
\* attempt: when a retry names one source, the next attempt's list holds that
\* worker's result alone and the candidate answer is that text.
C24_AttemptStartsEmpty ==
    /\ [](pc = "exec_mcp" => worker_results = <<>>)
    /\ [](pc = "exec_rag" => Len(worker_results) = (IF RunsMcp(route) THEN 1 ELSE 0))
    /\ []((pc = "synthesize" /\ route \in {"MCP", "RAG"})
            => (Len(worker_results) = 1 /\ worker_results[1][1] = route))
    /\ [][(pc = "loop" /\ pc' = "exec_mcp") => worker_results' = <<>>]_vars
    /\ [][(pc = "synthesize" /\ pc' = "validate" /\ route \in {"MCP", "RAG"})
            => current_answer' = Some(worker_results[1][2])]_vars

\* the second attempt, after BOTH was rejected with a retry naming the
\* Document worker: its list holds that worker's result only
C24_Witness ==
    /\ pc = "validate"
    /\ attempt = 2
    /\ verdicts = <<"RETRY">>
    /\ route = "RAG"
    /\ calls["mcp"] = 1
    /\ calls["rag"] = 2
    /\ calls["synthesis"] = 1
    /\ Len(worker_results) = 1
    /\ current_answer = Some(worker_results[1][2])

\* C25: once bound, the route is always MCP, RAG or BOTH, whatever the
\* classifier and the validator reply; so every attempt runs a worker and the
\* candidate answer 'No agents were executed' is never built.
C25_RouteAlwaysValid ==
    /\ route \in {"unbound", "MCP", "RAG", "BOTH"}
    /\ (attempt >= 1 => route \in {"MCP", "RAG", "BOTH"})
    /\ (pc = "synthesize" => worker_results # <<>>)
    /\ (pc = "validate" => Len(worker_results) >= 1)
    /\ current_answer # Some(TxtNoAgents)
    /\ (attempt >= 1 => (RunsMcp(route) \/ RunsRag(route)))

\* a retry whose reply names no source, after a classification that named
\* none either: both defaults gave BOTH
C25_Witness ==
    /\ attempt = 2
    /\ pc = "synthesize"
    /\ validation = Some([status |-> "RETRY", next_agent |-> "BOTH"])
    /\ route = "BOTH"
    /\ Len(worker_results) = 2
    /\ calls["mcp"] = 2

\* ------------------------------------- further claims on the normalisers
\* 'insufficient', 'incomplete', 'not found'
KwInsufficient == <<"i", "n", "s", "u", "f", "f", "i", "c", "i", "e", "n", "t">>

KwIncomplete == <<"i", "n", "c", "o", "m", "p", "l", "e", "t", "e">>

KwNotFound == <<"n", "o", "t", " ", "f", "o", "u", "n", "d">>

KwRetry == <<"r", "e", "t", "r", "y">>

\* C26: every validator reply that contains 'insufficient', 'incomplete' or
\* 'not found' is normalised to ACCEPT: each holds an accept keyword and
\* acceptance is tested first, so none of the three ever gives RETRY.
C26_ShadowedRetryKeywords ==
    (/\ nz_validation # None
     /\ \E kw \in {KwInsufficient, KwIncomplete, KwNotFound} : Contains(Lower(nz_text), kw))
        => nz_validation[1] = [status |-> "ACCEPT"]

\* a reply holding 'retry' and 'incomplete' was accepted
C26_Witness ==
    /\ nz_validation = Some([status |-> "ACCEPT"])
    /\ Contains(Lower(nz_text), KwIncomplete)
    /\ Contains(Lower(nz_text), KwRetry)

\* text is reply in some letter case
IsReply(text, reply) ==
    /\ Len(text) = Len(reply)
    /\ \A i \in 1..Len(reply) :
          \/ text[i] = reply[i]
          \/ reply[i] \in DOMAIN UpperToLower /\ text[i] = UpperToLower[reply[i]]

\* C27: the replies the prompts ask for are decoded as intended in any letter
\* case: 'MCP', 'RAG', 'BOTH' give the routes MCP, RAG, BOTH; 'ACCEPT' gives
\* ACCEPT; 'RETRY_WITH_MCP', 'RETRY_WITH_RAG', 'RETRY_WITH_BOTH' give RETRY
\* with next_agent MCP, RAG, BOTH.
C27_PromptRepliesDecoded ==
    /\ nz_route # "unbound" =>
          /\ IsReply(nz_text, ReplyMCP) => nz_route = "MCP"
          /\ IsReply(nz_text, ReplyRAG) => nz_route = "RAG"
          /\ IsReply(nz_text, ReplyBOTH) => nz_route = "BOTH"
    /\ nz_validation # None =>
          /\ IsReply(nz_text, ReplyAccept) => nz_validation[1].status = "ACCEPT"
          /\ IsReply(nz_text, ReplyRetryMcp)
                => nz_validation[1] = [status |-> "RETRY", next_agent |-> "MCP"]
          /\ IsReply(nz_text, ReplyRetryRag)
                => nz_validation[1] = [status |-> "RETRY", next_agent |-> "RAG"]
          /\ IsReply(nz_text, ReplyRetryBoth)
                => nz_validation[1] = [status |-> "RETRY", next_agent |-> "BOTH"]

\* 'Retry_With_Rag' in a mixed letter case was decoded
C27_Witness ==
    /\ IsReply(nz_text, ReplyRetryRag)
    /\ nz_text # ReplyRetryRag
    /\ nz_text # Lower(ReplyRetryRag)
    /\ nz_validation = Some([status |-> "RETRY", next_agent |-> "RAG"])

\* ------------------------------------------ resources and the query text
\* C28: one run makes at most 1 classification call and at most 3 calls of
\* each of the Database worker, the Document worker, the synthesis crew and
\* the validation crew, and it terminates when every call returns or raises.
C28_BoundedCallsAndTerminates ==
    /\ [](/\ calls["classifier"] <= 1
          /\ \A c \in {"mcp", "rag", "synthesis", "validator"} : calls[c] <= 3)
    /\ <>(pc = "done")

\* a finished run that made every call as often as it can
C28_Witness ==
    /\ pc = "done"
    /\ result # None
    /\ calls = [c \in Crews |-> IF c = "classifier" THEN 1 ELSE 3]

\* C29: in every attempt the query handed to the workers, the synthesis crew
\* and the validation crew is the caller's query; no step assigns the query,
\* and a retry changes the route and the attempt counter only.
C29_QueryUnchanged ==
    /\ [](\A h \in handed : h[2] = query)
    /\ [][query' = query]_vars
    /\ [][(Validated /\ pc' = "loop")
            => /\ attempt' = attempt + 1
               /\ UNCHANGED <<query, worker_results, current_answer, final_answer>>]_vars

\* a second attempt in which every crew has been handed the second query
C29_Witness ==
    /\ attempt = 2
    /\ query = 2
    /\ pc = "return"
    /\ calls["validator"] = 2
    /\ handed = Crews \X {2}

\* ------------------------------------------- claim on the document index
RECURSIVE C30_ChunksReported(_)
\* the sum of the 'chunks' counts of the outcomes that report success
C30_ChunksReported(outcomes) ==
    IF outcomes = <<>> THEN 0
    ELSE (IF Head(outcomes).success THEN Head(outcomes).chunks ELSE 0)
            + C30_ChunksReported(Tail(outcomes))

\* C30: after index_all_pdfs the index holds every chunk of every file
\* reported as indexed: the number of stored points is the sum of the
\* 'chunks' counts of the returned outcomes, and no file's chunks overwrite
\* another file's.
C30_IndexHoldsEveryChunk ==
    rag_pc = "done" =>
        /\ Cardinality(DOMAIN points) = C30_ChunksReported(rag_results)
        /\ \A k \in 1..Len(rag_results) :
              rag_results[k].success =>
                 Cardinality({id \in DOMAIN points : points[id].source = rag_results[k].file})
                    = rag_results[k].chunks
====
